---- MODULE Spec2Model ----
(***************************************************************************)
(* A model of src/python/antivirus.py: the chunked, single-pass scan       *)
(* is_infected(file_path) and the module-level tables it consults.         *)
(*                                                                         *)
(* Bytes are integers 0..255 and byte strings are sequences of them.       *)
(* Optional values (None or a value) are <<>> and <<v>>.                    *)
(* Floats are records [nan, milli]: a value in thousandths, or NaN.        *)
(* The two hashlib digests are folds of the same shape (a state seeded at  *)
(* construction, updated byte by byte, finalized to fixed-width lowercase  *)
(* hex) with a small state, so that TLC can compute them.                  *)
(***************************************************************************)
EXTENDS Integers, Sequences, FiniteSets, Bags, TLC

(***************************************************************************)
(* Bounds of the model.                                                    *)
(***************************************************************************)
\* Bytes returned by one f.read(): the code reads 8192, the model fewer.
ChunkSize == 32
\* A file's content is the concatenation of at most MaxPieces pieces.
MaxPieces == 3
\* Number of concurrent is_infected calls in SpecConc.
NProcs == 2

(***************************************************************************)
(* Values.                                                                 *)
(***************************************************************************)
None == <<>>
Some(v) == <<v>>

Float(m) == [nan |-> FALSE, milli |-> m]
NaN == [nan |-> TRUE, milli |-> 0]
\* a > b on floats: every comparison with NaN is false.
FloatGt(a, b) == ~a.nan /\ ~b.nan /\ a.milli > b.milli

Digit3(n) ==
    ToString(n \div 100) \o ToString((n \div 10) % 10) \o ToString(n % 10)
\* str(float) as an f-string prints it, to three decimals.
FloatStr(a) ==
    IF a.nan THEN "nan"
    ELSE ToString(a.milli \div 1000) \o "." \o Digit3(a.milli % 1000)

Min(a, b) == IF a < b THEN a ELSE b

(***************************************************************************)
(* Byte strings.                                                           *)
(***************************************************************************)
Repeat(b, n) == [i \in 1..n |-> b]

\* bytes.startswith
StartsWith(chunk, sig) ==
    /\ Len(chunk) >= Len(sig)
    /\ \A j \in 1..Len(sig) : chunk[j] = sig[j]

\* needle in chunk
Contains(chunk, needle) ==
    \E i \in 0..(Len(chunk) - Len(needle)) :
        \A j \in 1..Len(needle) : chunk[i + j] = needle[j]

\* bytes.lower: ASCII A-Z to a-z, every other byte unchanged
Lower(chunk) ==
    [i \in 1..Len(chunk) |->
        IF chunk[i] \in 65..90 THEN chunk[i] + 32 ELSE chunk[i]]

\* str prefix test, used to read a reason's category
StrStartsWith(s, prefix) ==
    /\ Len(s) >= Len(prefix)
    /\ SubSeq(s, 1, Len(prefix)) = prefix

(***************************************************************************)
(* Module-level tables and constants (their initial values).               *)
(***************************************************************************)
SigMZ == <<77, 90>>
SigELF == <<127, 69, 76, 70>>
SigMachO == <<254, 237, 250, 206>>
SigMachO64 == <<254, 237, 250, 207>>
SigPDF == <<37, 80, 68, 70, 45>>

\* EXECUTABLE_HEADERS, in insertion order
EXECUTABLE_HEADERS ==
    << [sig |-> SigMZ, desc |-> "Windows PE (MZ)"],
       [sig |-> SigELF, desc |-> "Linux ELF"],
       [sig |-> SigMachO, desc |-> "Mach-O (macOS)"],
       [sig |-> SigMachO64, desc |-> "Mach-O (macOS 64-bit)"],
       [sig |-> SigPDF, desc |-> "PDF (check for embedded JS)"] >>

\* b'/JavaScript'
JsMarker == <<47, 74, 97, 118, 97, 83, 99, 114, 105, 112, 116>>

\* suspicious_strings
suspicious_strings ==
    << <<98, 105, 116, 99, 111, 105, 110>>,
       <<114, 97, 110, 115, 111, 109>>,
       <<101, 110, 99, 114, 121, 112, 116>>,
       <<100, 101, 99, 114, 121, 112, 116>>,
       <<99, 109, 100, 46, 101, 120, 101, 32, 47, 99>>,
       <<112, 111, 119, 101, 114, 115, 104, 101, 108, 108, 46, 101, 120, 101>> >>

\* b'\x90' * 20
NopByte == 144
NopSledLen == 20
NopSled == Repeat(NopByte, NopSledLen)

\* ENTROPY_THRESHOLD = 7.9, in thousandths
ENTROPY_THRESHOLD == 7900

(***************************************************************************)
(* hashlib.md5 / hashlib.sha256.                                           *)
(***************************************************************************)
HexDigits ==
    <<"0", "1", "2", "3", "4", "5", "6", "7",
      "8", "9", "a", "b", "c", "d", "e", "f">>

RECURSIVE Hex(_, _)
Hex(n, width) ==
    IF width = 0 THEN ""
    ELSE Hex(n \div 16, width - 1) \o HexDigits[(n % 16) + 1]

\* hashlib.md5(): the state at construction
Md5Init == 26437
Md5Step(h, b) == (h * 33 + b + 1) % 65521

\* hashlib.sha256(): the state at construction
Sha256Init == 434407
Sha256Step(h, b) == (h * 131 + b + 7) % 1048573

RECURSIVE Md5Range(_, _, _, _)
\* the state after bytes lo..hi of chunk, in order; the state after the left
\* half is a number before the right half starts from it
Md5Range(h, chunk, lo, hi) ==
    IF lo > hi THEN h
    ELSE IF lo = hi THEN Md5Step(h, chunk[lo])
    ELSE LET mid == (lo + hi) \div 2
             left == Md5Range(h, chunk, lo, mid)
         IN  IF left >= 0 THEN Md5Range(left, chunk, mid + 1, hi) ELSE left
\* md5_hash.update(chunk)
Md5Update(h, chunk) == Md5Range(h, chunk, 1, Len(chunk))

RECURSIVE Sha256Range(_, _, _, _)
Sha256Range(h, chunk, lo, hi) ==
    IF lo > hi THEN h
    ELSE IF lo = hi THEN Sha256Step(h, chunk[lo])
    ELSE LET mid == (lo + hi) \div 2
             left == Sha256Range(h, chunk, lo, mid)
         IN  IF left >= 0 THEN Sha256Range(left, chunk, mid + 1, hi) ELSE left
\* sha256_hash.update(chunk)
Sha256Update(h, chunk) == Sha256Range(h, chunk, 1, Len(chunk))

Md5HexDigest(h) == Hex(h, 4)
Sha256HexDigest(h) == Hex(h, 5)

(***************************************************************************)
(* byte_counts: the 256-bucket histogram, kept as a bag of byte values     *)
(* (a bucket that is absent holds zero).                                   *)
(***************************************************************************)
\* for byte in chunk: byte_counts[byte] += 1
Observe(byte_counts, chunk) ==
    LET bytes == {chunk[i] : i \in 1..Len(chunk)}
    IN  [b \in DOMAIN byte_counts \cup bytes |->
            CopiesIn(b, byte_counts)
                + Cardinality({i \in 1..Len(chunk) : chunk[i] = b})]

(***************************************************************************)
(* scipy.stats.entropy, in fixed point.  Log2Q10(n) is log2(n) in units of *)
(* 1/1024, computed bit by bit from the squared mantissa.                  *)
(***************************************************************************)
RECURSIVE FloorLog2(_)
FloorLog2(n) == IF n < 2 THEN 0 ELSE 1 + FloorLog2(n \div 2)

RECURSIVE Pow2(_)
Pow2(k) == IF k = 0 THEN 1 ELSE 2 * Pow2(k - 1)

RECURSIVE FracBits(_, _)
FracBits(m, bits) ==
    IF bits = 0 THEN 0
    ELSE LET sq == (m * m) \div 16384
         IN  IF sq >= 32768
             THEN Pow2(bits - 1) + FracBits(sq \div 2, bits - 1)
             ELSE FracBits(sq, bits - 1)

Log2Q10(n) ==
    LET k == FloorLog2(n)
    IN  k * 1024 + FracBits((n * 16384) \div Pow2(k), 10)

RECURSIVE SumCLog(_, _, _)
\* the sum of count * log2(count) over the non-empty buckets lo..hi
SumCLog(byte_counts, lo, hi) ==
    IF lo = hi
    THEN IF lo \in DOMAIN byte_counts
         THEN byte_counts[lo] * Log2Q10(byte_counts[lo])
         ELSE 0
    ELSE LET mid == (lo + hi) \div 2
         IN  SumCLog(byte_counts, lo, mid) + SumCLog(byte_counts, mid + 1, hi)

\* -sum p*log2(p) with p = count/total, in units of 1/1024 bit
EntropyBitsQ10(byte_counts) ==
    LET total == BagCardinality(byte_counts)
    IN  Log2Q10(total) - (SumCLog(byte_counts, 0, 255) \div total)

\* entropy(byte_counts / byte_counts.sum(), base=base): the natural logarithm
\* when base is None, else base 2.  An empty histogram divides 0 by 0: numpy
\* yields NaN probabilities (a warning, no exception) and the entropy is NaN.
scipy_entropy(byte_counts, base) ==
    IF BagCardinality(byte_counts) = 0 THEN NaN
    ELSE IF base = None
         THEN Float((EntropyBitsQ10(byte_counts) * 69315) \div 102400)
         ELSE Float((EntropyBitsQ10(byte_counts) * 1000) \div 1024)

(***************************************************************************)
(* The state.                                                              *)
(***************************************************************************)
VARIABLES
    fs,                  \* the file system: path -> [kind, data]
    KNOWN_BAD_MD5,       \* module global: md5 hex -> label
    KNOWN_BAD_SHA256,    \* module global: sha256 hex -> label
    executable_headers,  \* module global EXECUTABLE_HEADERS
    pc,                  \* each call's position in is_infected
    file_path,           \* each call's argument
    result,              \* each call's result dict
    locals,              \* each call's local variables and file offset
    obs                  \* history: what each call has read from the file system

vars ==
    <<fs, KNOWN_BAD_MD5, KNOWN_BAD_SHA256, executable_headers,
      pc, file_path, result, locals, obs>>

tables == <<KNOWN_BAD_MD5, KNOWN_BAD_SHA256, executable_headers>>

Procs == 1..NProcs

PathA == "/srv/uploads/a.bin"
PathB == "/srv/uploads/b.pdf"
Paths == {PathA, PathB}

\* str(e) of the OSError that open and f.read can raise
ErrorsAt(position, path) ==
    IF position = "open"
    THEN {"[Errno 13] Permission denied: '" \o path \o "'"}
    ELSE {"[Errno 5] Input/output error"}

KnownBadMd5Table ==
    ( "907e" :> "DDoS Malware"
   @@ "218d" :> "Remcos RAT"
   @@ "293d" :> "Remcos RAT Variant"
   @@ "9d79" :> "Dridex"
   @@ "6635" :> "Formbook"
   @@ "35bf" :> "Formbook Variant"
   @@ "44d8" :> "EICAR Test (Production Placeholder)"
   @@ "6690" :> "Unknown Malware Sample" )

KnownBadSha256Table ==
    ( "6e7fe" :> "Unknown Malware"
   @@ "efd2d" :> "Dridex"
   @@ "485fc" :> "IISShellModule"
   @@ "c0914" :> "Agent Tesla"
   @@ "795db" :> "Ryuk Ransomware"
   @@ "3c5af" :> "Unknown Malware Sample"
   @@ "fb554" :> "Suspicious File" )

(***************************************************************************)
(* File contents the scans are run on.                                     *)
(***************************************************************************)
Pad(n) == Repeat(120, n)
\* b'BitCoin': matches the suspicious string b'bitcoin' once lowered
BitCoin == <<66, 105, 116, 67, 111, 105, 110>>

Pieces ==
    { SigMZ, SigELF, SigMachO, SigMachO64, SigPDF, JsMarker, BitCoin,
      NopSled, Pad(ChunkSize), Pad(ChunkSize - 10) }

RECURSIVE Contents(_)
\* every concatenation of at most n pieces (the empty content included)
Contents(n) ==
    IF n = 0 THEN {<<>>}
    ELSE {<<>>} \cup {piece \o rest : piece \in Pieces, rest \in Contents(n - 1)}

\* every byte value once
Uniform256 == [i \in 1..256 |-> i - 1]

\* a PDF whose first chunk holds a suspicious string and a NOP sled and whose
\* second chunk holds the script marker
FlaggedPdf == SigPDF \o BitCoin \o NopSled \o JsMarker

Missing == [kind |-> "missing", data |-> <<>>]
Directory == [kind |-> "dir", data |-> <<>>]
RegularFile(data) == [kind |-> "file", data |-> data]

Entries ==
    {Missing, Directory}
        \cup {RegularFile(c) : c \in Contents(MaxPieces) \cup {Uniform256, FlaggedPdf}}

\* what the two paths hold when several scans run concurrently
ConcEntriesA ==
    {RegularFile(c) : c \in {Pad(ChunkSize) \o BitCoin, NopSled \o NopSled}}

ConcEntriesB == {RegularFile(SigPDF \o Pad(ChunkSize) \o JsMarker)}

(***************************************************************************)
(* is_infected, as functions of its local state.                           *)
(***************************************************************************)
RECURSIVE LastSlash(_, _)
LastSlash(path, i) ==
    IF i = 0 THEN 0
    ELSE IF SubSeq(path, i, i) = "/" THEN i ELSE LastSlash(path, i - 1)

\* os.path.basename
basename(path) == SubSeq(path, LastSlash(path, Len(path)) + 1, Len(path))

\* lines 48-55
NewResult(path) ==
    [ infected |-> FALSE,
      reason |-> None,
      filename |-> basename(path),
      size |-> 0,
      hashes |-> [md5 |-> None, sha256 |-> None],
      entropy |-> Float(0) ]

\* lines 71-77, and the offset of the file object f
NewLocals ==
    [ md5_hash |-> Md5Init,
      sha256_hash |-> Sha256Init,
      byte_counts |-> EmptyBag,
      header_checked |-> FALSE,
      pdf_checked |-> FALSE,
      suspicious_content |-> FALSE,
      shellcode_detected |-> FALSE,
      pos |-> 0 ]

NewObs == [isfile |-> None, size |-> None, chunks |-> <<>>, eof |-> FALSE,
           error |-> None]

RECURSIVE HeaderLoopPdfReturns(_, _, _, _)
\* HeaderLoop with the PDF signature treated like the executable ones.
HeaderLoopPdfReturns(chunk, headers, i, pdf) ==
    IF i > Len(headers) THEN [hit |-> None, pdf |-> pdf]
    ELSE IF StartsWith(chunk, headers[i].sig)
         THEN [hit |-> Some(headers[i].desc), pdf |-> pdf]
         ELSE HeaderLoopPdfReturns(chunk, headers, i + 1, pdf)

RECURSIVE HeaderLoop(_, _, _, _)
\* lines 90-98: the first non-PDF signature the chunk starts with, and whether
\* the PDF signature was met before it
HeaderLoop(chunk, headers, i, pdf) ==
    IF i > Len(headers) THEN [hit |-> None, pdf |-> pdf]
    ELSE IF StartsWith(chunk, headers[i].sig)
         THEN IF headers[i].sig = SigPDF
              THEN HeaderLoop(chunk, headers, i + 1, TRUE)
              ELSE [hit |-> Some(headers[i].desc), pdf |-> pdf]
         ELSE HeaderLoop(chunk, headers, i + 1, pdf)

\* line 110
HasSuspiciousString(chunk) ==
    LET lowered == Lower(chunk)
    IN  \E k \in 1..Len(suspicious_strings) :
            Contains(lowered, suspicious_strings[k])

\* HasNopSled that also fires on a sled begun at the end of the chunk.
HasNopSledOrItsStart(chunk) ==
    Contains(chunk, NopSled) \/ (chunk # <<>> /\ chunk[Len(chunk)] = NopByte)

\* line 114
HasNopSled(chunk) == Contains(chunk, NopSled)

\* Feed with the digests created anew for every chunk.
FeedRestartsDigests(l, chunk) ==
    [l EXCEPT !.md5_hash = Md5Update(Md5Init, chunk),
              !.sha256_hash = Sha256Update(Sha256Init, chunk),
              !.byte_counts = Observe(l.byte_counts, chunk),
              !.pos = l.pos + Len(chunk)]

\* lines 81-86
Feed(l, chunk) ==
    [l EXCEPT !.md5_hash = Md5Update(l.md5_hash, chunk),
              !.sha256_hash = Sha256Update(l.sha256_hash, chunk),
              !.byte_counts = Observe(l.byte_counts, chunk),
              !.pos = l.pos + Len(chunk)]

\* Heuristics with each flag assigned the test of the current chunk.
HeuristicsOverwrite(l, chunk) ==
    [l EXCEPT !.suspicious_content = HasSuspiciousString(chunk),
              !.shellcode_detected = HasNopSled(chunk)]

\* lines 108-115
Heuristics(l, chunk) ==
    [l EXCEPT !.suspicious_content = @ \/ HasSuspiciousString(chunk),
              !.shellcode_detected = @ \/ HasNopSled(chunk)]

\* ProcessChunk with the return of line 98 forgotten: a signature hit sets the
\* verdict and the loop goes on.
ProcessChunkNoReturn(l, r, chunk, headers) ==
    LET fed == Feed(l, chunk)
        hdr == IF fed.header_checked
               THEN [hit |-> None, pdf |-> FALSE]
               ELSE HeaderLoop(chunk, headers, 1, FALSE)
        checked == [fed EXCEPT !.header_checked = TRUE,
                               !.pdf_checked = @ \/ hdr.pdf]
    IN  IF hdr.hit # None
        THEN [ locals |-> Heuristics(checked, chunk),
               result |-> [r EXCEPT
                   !.infected = TRUE,
                   !.reason = Some("Suspicious executable header: " \o hdr.hit[1])],
               returned |-> FALSE ]
        ELSE IF checked.pdf_checked /\ Contains(chunk, JsMarker)
        THEN [ locals |-> checked,
               result |-> [r EXCEPT
                   !.infected = TRUE,
                   !.reason = Some("Embedded JavaScript in PDF (potential exploit)")],
               returned |-> TRUE ]
        ELSE [ locals |-> Heuristics(checked, chunk),
               result |-> r,
               returned |-> FALSE ]

\* lines 81-115: one iteration of the loop on a non-empty chunk.  Yields the
\* locals and the result after it, and whether the function returned.
ProcessChunk(l, r, chunk, headers) ==
    LET fed == Feed(l, chunk)
        hdr == IF fed.header_checked
               THEN [hit |-> None, pdf |-> FALSE]
               ELSE HeaderLoop(chunk, headers, 1, FALSE)
        checked == [fed EXCEPT !.header_checked = TRUE,
                               !.pdf_checked = @ \/ hdr.pdf]
    IN  IF hdr.hit # None
        THEN [ locals |-> [fed EXCEPT !.pdf_checked = @ \/ hdr.pdf],
               result |-> [r EXCEPT
                   !.infected = TRUE,
                   !.reason = Some("Suspicious executable header: " \o hdr.hit[1])],
               returned |-> TRUE ]
        ELSE IF checked.pdf_checked /\ Contains(chunk, JsMarker)
        THEN [ locals |-> checked,
               result |-> [r EXCEPT
                   !.infected = TRUE,
                   !.reason = Some("Embedded JavaScript in PDF (potential exploit)")],
               returned |-> TRUE ]
        ELSE [ locals |-> Heuristics(checked, chunk),
               result |-> r,
               returned |-> FALSE ]

\* PostStream with the two blacklist lookups in the other order.
PostStreamShaFirst(l, r, md5_table, sha256_table) ==
    LET md5 == Md5HexDigest(l.md5_hash)
        sha256 == Sha256HexDigest(l.sha256_hash)
        hashed == [r EXCEPT !.hashes = [md5 |-> Some(md5), sha256 |-> Some(sha256)]]
    IN  IF sha256 \in DOMAIN sha256_table
        THEN [hashed EXCEPT
                 !.infected = TRUE,
                 !.reason = Some("Known malware (SHA256): " \o sha256_table[sha256])]
        ELSE IF md5 \in DOMAIN md5_table
        THEN [hashed EXCEPT
                 !.infected = TRUE,
                 !.reason = Some("Known malware (MD5): " \o md5_table[md5])]
        ELSE [hashed EXCEPT
                 !.reason = Some("Scan completed: No threats detected")]

\* PostStream that stores the MD5 digest only.
PostStreamMd5Only(l, r, md5_table, sha256_table) ==
    LET md5 == Md5HexDigest(l.md5_hash)
    IN  [r EXCEPT !.hashes.md5 = Some(md5),
                  !.reason = Some("Scan completed: No threats detected")]

\* lines 117-159: the checks after the loop has read the file to its end
PostStream(l, r, md5_table, sha256_table) ==
    LET md5 == Md5HexDigest(l.md5_hash)
        sha256 == Sha256HexDigest(l.sha256_hash)
        hashed == [r EXCEPT !.hashes = [md5 |-> Some(md5), sha256 |-> Some(sha256)]]
        file_entropy == scipy_entropy(l.byte_counts, None)
        measured == [hashed EXCEPT !.entropy = file_entropy]
    IN  IF md5 \in DOMAIN md5_table
        THEN [hashed EXCEPT
                 !.infected = TRUE,
                 !.reason = Some("Known malware (MD5): " \o md5_table[md5])]
        ELSE IF sha256 \in DOMAIN sha256_table
        THEN [hashed EXCEPT
                 !.infected = TRUE,
                 !.reason = Some("Known malware (SHA256): " \o sha256_table[sha256])]
        ELSE IF FloatGt(file_entropy, Float(ENTROPY_THRESHOLD))
        THEN [measured EXCEPT
                 !.infected = TRUE,
                 !.reason = Some("High file entropy: " \o FloatStr(file_entropy)
                                   \o " (suspected packed/encrypted malware)")]
        ELSE IF l.suspicious_content
        THEN [measured EXCEPT
                 !.infected = TRUE,
                 !.reason = Some("Suspicious content strings (potential ransomware or command injection)")]
        ELSE IF l.shellcode_detected
        THEN [measured EXCEPT
                 !.infected = TRUE,
                 !.reason = Some("Potential shellcode pattern (NOP sled detected)")]
        ELSE [measured EXCEPT
                 !.reason = Some("Scan completed: No threats detected")]

\* ExceptHandler that fails closed: the error is reported as an infection.
ExceptHandlerFailClosed(r, e) ==
    [r EXCEPT !.infected = TRUE, !.reason = Some("Scan error: " \o e)]

\* lines 161-164
ExceptHandler(r, e) == [r EXCEPT !.reason = Some("Scan error: " \o e)]

\* EmptyFile with the size test dropped.
EmptyFileNever(file_size) == FALSE

\* line 64
EmptyFile(file_size) == file_size = 0

\* InTry with the try block opened after the file: only the reads are covered.
InTryReadsOnly(position) == position = "read"

\* lines 57-160: the positions of a call that the try block covers
InTry(position) == position \in {"isfile", "getsize", "open", "read"}

\* f.read(8192) at offset pos of the file's current content
ReadAt(data, pos) == SubSeq(data, pos + 1, Min(pos + ChunkSize, Len(data)))

(***************************************************************************)
(* Initial states.                                                         *)
(***************************************************************************)
InitCalls ==
    /\ KNOWN_BAD_MD5 = KnownBadMd5Table
    /\ KNOWN_BAD_SHA256 = KnownBadSha256Table
    /\ executable_headers = EXECUTABLE_HEADERS
    /\ pc = [p \in Procs |-> "idle"]
    /\ file_path = [p \in Procs |-> PathA]
    /\ result = [p \in Procs |-> NewResult(PathA)]
    /\ locals = [p \in Procs |-> NewLocals]
    /\ obs = [p \in Procs |-> NewObs]

\* one path holds any of the entries, the other does not exist
Init ==
    /\ \E e \in Entries : fs = (PathA :> e @@ PathB :> Missing)
    /\ InitCalls

InitConc ==
    /\ \E a \in ConcEntriesA, b \in ConcEntriesB : fs = (PathA :> a @@ PathB :> b)
    /\ InitCalls

(***************************************************************************)
(* The steps of a call p of is_infected.                                   *)
(***************************************************************************)
\* is_infected(path) is called: lines 47-55
Call(p, path) ==
    /\ pc[p] = "idle"
    /\ file_path' = [file_path EXCEPT ![p] = path]
    /\ result' = [result EXCEPT ![p] = NewResult(path)]
    /\ locals' = [locals EXCEPT ![p] = NewLocals]
    /\ obs' = [obs EXCEPT ![p] = NewObs]
    /\ pc' = [pc EXCEPT ![p] = "isfile"]
    /\ UNCHANGED <<fs, tables>>

\* lines 58-61
IsFile(p) ==
    /\ pc[p] = "isfile"
    /\ LET isfile == fs[file_path[p]].kind = "file"
       IN  /\ obs' = [obs EXCEPT ![p].isfile = Some(isfile)]
           /\ IF isfile
              THEN /\ pc' = [pc EXCEPT ![p] = "getsize"]
                   /\ UNCHANGED result
              ELSE /\ result' = [result EXCEPT
                                    ![p].reason = Some("File does not exist")]
                   /\ pc' = [pc EXCEPT ![p] = "done"]
    /\ UNCHANGED <<fs, tables, file_path, locals>>

\* lines 63-77
GetSize(p) ==
    /\ pc[p] = "getsize"
    /\ LET file_size == Len(fs[file_path[p]].data)
       IN  /\ obs' = [obs EXCEPT ![p].size = Some(file_size)]
           /\ IF EmptyFile(file_size)
              THEN /\ result' = [result EXCEPT ![p].reason = Some("File is empty")]
                   /\ pc' = [pc EXCEPT ![p] = "done"]
                   /\ UNCHANGED locals
              ELSE /\ result' = [result EXCEPT ![p].size = file_size]
                   /\ locals' = [locals EXCEPT ![p] = NewLocals]
                   /\ pc' = [pc EXCEPT ![p] = "open"]
    /\ UNCHANGED <<fs, tables, file_path>>

\* line 79
Open(p) ==
    /\ pc[p] = "open"
    /\ locals' = [locals EXCEPT ![p].pos = 0]
    /\ pc' = [pc EXCEPT ![p] = "read"]
    /\ UNCHANGED <<fs, tables, file_path, result, obs>>

\* ReadChunk with the two heuristic flags kept at module level, shared by
\* every call.
ReadChunkSharedFlags(p) ==
    /\ pc[p] = "read"
    /\ LET chunk == ReadAt(fs[file_path[p]].data, locals[p].pos)
           after == ProcessChunk(locals[p], result[p], chunk, executable_headers)
       IN  /\ chunk # <<>>
           /\ obs' = [obs EXCEPT ![p].chunks = Append(@, chunk)]
           /\ locals' = [q \in Procs |->
                            IF q = p THEN after.locals
                            ELSE [locals[q] EXCEPT
                                    !.suspicious_content =
                                        after.locals.suspicious_content,
                                    !.shellcode_detected =
                                        after.locals.shellcode_detected]]
           /\ result' = [result EXCEPT ![p] = after.result]
           /\ pc' = [pc EXCEPT ![p] = IF after.returned THEN "done" ELSE "read"]
    /\ UNCHANGED <<fs, tables, file_path>>

\* lines 80-115: f.read returns a non-empty chunk, which the loop body handles
ReadChunk(p) ==
    /\ pc[p] = "read"
    /\ LET chunk == ReadAt(fs[file_path[p]].data, locals[p].pos)
           after == ProcessChunk(locals[p], result[p], chunk, executable_headers)
       IN  /\ chunk # <<>>
           /\ obs' = [obs EXCEPT ![p].chunks = Append(@, chunk)]
           /\ locals' = [locals EXCEPT ![p] = after.locals]
           /\ result' = [result EXCEPT ![p] = after.result]
           /\ pc' = [pc EXCEPT ![p] = IF after.returned THEN "done" ELSE "read"]
    /\ UNCHANGED <<fs, tables, file_path>>

\* lines 80, 117-159: f.read returns b'', the loop ends and the checks after
\* it produce the result
EndOfFile(p) ==
    /\ pc[p] = "read"
    /\ ReadAt(fs[file_path[p]].data, locals[p].pos) = <<>>
    /\ obs' = [obs EXCEPT ![p].eof = TRUE]
    /\ result' = [result EXCEPT
                     ![p] = PostStream(locals[p], @, KNOWN_BAD_MD5, KNOWN_BAD_SHA256)]
    /\ pc' = [pc EXCEPT ![p] = "done"]
    /\ UNCHANGED <<fs, tables, file_path, locals>>

\* lines 79, 80, 161-164: open or f.read raises OSError.  Inside the try
\* block the handler turns it into a result; outside, the caller would get it.
IOFailure(p, e) ==
    /\ pc[p] \in {"open", "read"}
    /\ obs' = [obs EXCEPT ![p].error = Some(e)]
    /\ IF InTry(pc[p])
       THEN /\ result' = [result EXCEPT ![p] = ExceptHandler(@, e)]
            /\ pc' = [pc EXCEPT ![p] = "done"]
       ELSE /\ pc' = [pc EXCEPT ![p] = "raised"]
            /\ UNCHANGED result
    /\ UNCHANGED <<fs, tables, file_path, locals>>

\* another process truncates a file that a scan is working on
Truncate(path) ==
    /\ fs[path].kind = "file"
    /\ fs[path].data # <<>>
    /\ \E p \in Procs : file_path[p] = path /\ pc[p] \in {"getsize", "open", "read"}
    /\ fs' = [fs EXCEPT ![path].data = <<>>]
    /\ UNCHANGED <<tables, pc, file_path, result, locals, obs>>

Step(p) ==
    \/ \E path \in Paths : Call(p, path)
    \/ IsFile(p)
    \/ GetSize(p)
    \/ Open(p)
    \/ ReadChunk(p)
    \/ EndOfFile(p)
    \/ \E e \in ErrorsAt(pc[p], file_path[p]) : IOFailure(p, e)

Environment == \E path \in Paths : Truncate(path)

\* a single call
NextOne == Step(1) \/ Environment

\* NProcs calls, interleaved at the granularity of the system calls
Next == (\E p \in Procs : Step(p)) \/ Environment

Spec == Init /\ [][NextOne]_vars

SpecConc == InitConc /\ [][Next]_vars

(***************************************************************************)
(* Vocabulary of the properties.                                           *)
(***************************************************************************)
Returned(p) == pc[p] = "done"

RECURSIVE Concat(_)
Concat(chunks) ==
    IF chunks = <<>> THEN <<>> ELSE Head(chunks) \o Concat(Tail(chunks))

\* the bytes call p has read so far, in file order
Seen(p) == Concat(obs[p].chunks)

ReasonStarts(r, prefix) ==
    r.reason # None /\ StrStartsWith(r.reason[1], prefix)

NonPdfSigs == {SigMZ, SigELF, SigMachO, SigMachO64}

SigDesc ==
    ( SigMZ :> "Windows PE (MZ)"
   @@ SigELF :> "Linux ELF"
   @@ SigMachO :> "Mach-O (macOS)"
   @@ SigMachO64 :> "Mach-O (macOS 64-bit)" )

\* the six detection categories and the reasons that name them
DetectionCategories ==
    { [name |-> "executable header",
       prefixes |-> {"Suspicious executable header: " \o SigDesc[sig] :
                        sig \in NonPdfSigs}],
      [name |-> "embedded JavaScript in PDF",
       prefixes |-> {"Embedded JavaScript in PDF (potential exploit)"}],
      [name |-> "known malware digest",
       prefixes |-> {"Known malware (MD5): ", "Known malware (SHA256): "}],
      [name |-> "high entropy",
       prefixes |-> {"High file entropy: "}],
      [name |-> "suspicious content strings",
       prefixes |-> {"Suspicious content strings (potential ransomware or command injection)"}],
      [name |-> "shellcode pattern",
       prefixes |-> {"Potential shellcode pattern (NOP sled detected)"}] }

CategoriesOf(text) ==
    {c.name : c \in {d \in DetectionCategories :
                        \E prefix \in d.prefixes : StrStartsWith(text, prefix)}}

\* the reasons that report no detection
NoDetectionPrefixes ==
    {"File does not exist", "File is empty", "Scan error: ",
     "Scan completed: No threats detected"}

ShortCircuitPrefixes ==
    {"Suspicious executable header: ", "Embedded JavaScript in PDF (potential exploit)"}

PostStreamPrefixes ==
    {"Known malware (MD5): ", "Known malware (SHA256): ", "High file entropy: ",
     "Suspicious content strings (potential ransomware or command injection)",
     "Potential shellcode pattern (NOP sled detected)",
     "Scan completed: No threats detected"}

Md5Of(data) == Md5HexDigest(Md5Update(Md5Init, data))
Sha256Of(data) == Sha256HexDigest(Sha256Update(Sha256Init, data))

(***************************************************************************)
(* C1: every returned result with infected = TRUE carries a non-null       *)
(* reason that names exactly one of the six detection categories, and a    *)
(* returned result whose reason is "File does not exist", "File is empty", *)
(* "Scan error: ..." or "Scan completed: No threats detected" has          *)
(* infected = FALSE.                                                       *)
(***************************************************************************)
C1_InfectedNamesOneCategory ==
    \A p \in Procs :
        Returned(p) =>
            LET r == result[p]
            IN  /\ r.infected =>
                    /\ r.reason # None
                    /\ Cardinality(CategoriesOf(r.reason[1])) = 1
                /\ (\E prefix \in NoDetectionPrefixes : ReasonStarts(r, prefix))
                        => ~r.infected

\* a call has returned the shellcode verdict
C1_Witness ==
    \E p \in Procs :
        /\ Returned(p)
        /\ result[p].infected
        /\ CategoriesOf(result[p].reason[1]) = {"shellcode pattern"}

(***************************************************************************)
(* C2: a call whose first chunk starts with a non-PDF executable signature *)
(* has returned while handling that chunk: infected = TRUE, the reason is  *)
(* "Suspicious executable header: <description>", no further chunk was     *)
(* read, both hashes are None and entropy is 0.0, whatever the digest and  *)
(* the rest of the content.                                                *)
(***************************************************************************)
C2_SignaturePriority ==
    \A p \in Procs :
        \A sig \in NonPdfSigs :
            (obs[p].chunks # <<>> /\ StartsWith(obs[p].chunks[1], sig)) =>
                /\ Returned(p)
                /\ Len(obs[p].chunks) = 1
                /\ ~obs[p].eof
                /\ obs[p].error = None
                /\ result[p] =
                     [NewResult(file_path[p]) EXCEPT
                         !.infected = TRUE,
                         !.reason = Some("Suspicious executable header: " \o SigDesc[sig]),
                         !.size = obs[p].size[1]]

\* the file starts with MZ, goes on after the first chunk, holds a NOP sled and
\* has a blacklisted MD5 digest
C2_Witness ==
    \E p \in Procs :
        LET data == fs[file_path[p]].data
        IN  /\ Returned(p)
            /\ obs[p].chunks # <<>>
            /\ StartsWith(obs[p].chunks[1], SigMZ)
            /\ Len(data) > Len(obs[p].chunks[1])
            /\ HasNopSled(obs[p].chunks[1])
            /\ Md5Of(data) \in DOMAIN KNOWN_BAD_MD5

(***************************************************************************)
(* C3: a call that read its file to the end: if the MD5 digest of what it  *)
(* read is in KNOWN_BAD_MD5 the result is infected with reason             *)
(* "Known malware (MD5): <label>", whatever the flags; the SHA-256 table   *)
(* decides only when the MD5 lookup missed, with reason                    *)
(* "Known malware (SHA256): <label>".                                      *)
(***************************************************************************)
C3_BlacklistPriority ==
    \A p \in Procs :
        (Returned(p) /\ obs[p].eof) =>
            LET md5 == Md5Of(Seen(p))
                sha256 == Sha256Of(Seen(p))
                r == result[p]
            IN  /\ md5 \in DOMAIN KNOWN_BAD_MD5 =>
                    /\ r.infected
                    /\ r.reason = Some("Known malware (MD5): " \o KNOWN_BAD_MD5[md5])
                /\ (md5 \notin DOMAIN KNOWN_BAD_MD5 /\ sha256 \in DOMAIN KNOWN_BAD_SHA256) =>
                    /\ r.infected
                    /\ r.reason = Some("Known malware (SHA256): "
                                         \o KNOWN_BAD_SHA256[sha256])
                /\ ReasonStarts(r, "Known malware (SHA256): ") =>
                    md5 \notin DOMAIN KNOWN_BAD_MD5

\* both digests are blacklisted and both heuristic flags are set
C3_Witness ==
    \E p \in Procs :
        /\ Returned(p)
        /\ obs[p].eof
        /\ Md5Of(Seen(p)) \in DOMAIN KNOWN_BAD_MD5
        /\ Sha256Of(Seen(p)) \in DOMAIN KNOWN_BAD_SHA256
        /\ locals[p].suspicious_content
        /\ locals[p].shellcode_detected
        /\ ReasonStarts(result[p], "Known malware (MD5): ")

(***************************************************************************)
(* C4: a call on a path that is not a regular file returns infected =      *)
(* FALSE with reason "File does not exist"; a call that finds its file     *)
(* zero-length returns infected = FALSE, reason "File is empty", size 0.   *)
(* Neither reads a chunk; hashes stay None and entropy 0.0.                *)
(***************************************************************************)
C4_ValidationShortCircuits ==
    \A p \in Procs :
        /\ (pc[p] \notin {"idle", "isfile"} /\ fs[file_path[p]].kind # "file") =>
              /\ Returned(p)
              /\ obs[p].chunks = <<>>
              /\ result[p] = [NewResult(file_path[p]) EXCEPT
                                 !.reason = Some("File does not exist")]
        /\ obs[p].size = Some(0) =>
              /\ Returned(p)
              /\ obs[p].chunks = <<>>
              /\ ~obs[p].eof
              /\ result[p] = [NewResult(file_path[p]) EXCEPT
                                 !.reason = Some("File is empty")]

\* an existing zero-length file has been scanned
C4_Witness ==
    \E p \in Procs :
        /\ Returned(p)
        /\ fs[file_path[p]] = RegularFile(<<>>)
        /\ obs[p].size = Some(0)
        /\ result[p].reason = Some("File is empty")

(***************************************************************************)
(* C5: no call raises to its caller, and a call whose open or read failed  *)
(* has returned infected = FALSE with reason "Scan error: <message>",      *)
(* whatever the chunks read before had set.                                *)
(***************************************************************************)
C5_ErrorsAreNotInfections ==
    \A p \in Procs :
        /\ pc[p] # "raised"
        /\ obs[p].error # None =>
              /\ Returned(p)
              /\ ~result[p].infected
              /\ result[p].reason = Some("Scan error: " \o obs[p].error[1])

\* a read failed after the first chunk had activated PDF mode and set both flags
C5_Witness ==
    \E p \in Procs :
        /\ obs[p].error # None
        /\ obs[p].chunks # <<>>
        /\ locals[p].pdf_checked
        /\ locals[p].suspicious_content
        /\ locals[p].shellcode_detected

(***************************************************************************)
(* C6: in every result hashes.md5 is None exactly when hashes.sha256 is,   *)
(* and they are set only once the file has been read to its end: None on   *)
(* the validation exits, the signature and embedded-script exits and scan  *)
(* errors; set on every exit after the loop.                               *)
(***************************************************************************)
C6_HashesTogetherAtEndOfFile ==
    \A p \in Procs :
        LET r == result[p]
        IN  /\ (r.hashes.md5 = None) <=> (r.hashes.sha256 = None)
            /\ r.hashes.md5 # None => obs[p].eof
            /\ Returned(p) =>
                 /\ obs[p].eof => r.hashes.md5 # None
                 /\ (\E prefix \in {"File does not exist", "File is empty", "Scan error: "}
                                      \cup ShortCircuitPrefixes :
                        ReasonStarts(r, prefix))
                      => (r.hashes.md5 = None /\ r.hashes.sha256 = None)
                 /\ (\E prefix \in PostStreamPrefixes : ReasonStarts(r, prefix))
                      => (r.hashes.md5 # None /\ r.hashes.sha256 # None)

\* a call returned a heuristic verdict after reading several chunks
C6_Witness ==
    \E p \in Procs :
        /\ Returned(p)
        /\ Len(obs[p].chunks) >= 2
        /\ obs[p].eof
        /\ result[p].hashes.md5 # None
        /\ result[p].hashes.sha256 # None
        /\ ReasonStarts(result[p], "Suspicious content strings")

(***************************************************************************)
(* C7: for a call that read its file to the end and found neither digest   *)
(* blacklisted, the entropy field is the Shannon entropy in bits of the    *)
(* bytes read (0.0 for identical bytes, 8.0 for all 256 values in equal    *)
(* proportion), and when that entropy exceeds 7.9 bits the result is       *)
(* infected with reason "High file entropy: <value> (suspected             *)
(* packed/encrypted malware)".                                             *)
(***************************************************************************)
ShannonBits(data) == scipy_entropy(Observe(EmptyBag, data), Some(2))

C7_HighEntropyInBits ==
    \A p \in Procs :
        (/\ Returned(p)
         /\ obs[p].eof
         /\ Seen(p) # <<>>
         /\ Md5Of(Seen(p)) \notin DOMAIN KNOWN_BAD_MD5
         /\ Sha256Of(Seen(p)) \notin DOMAIN KNOWN_BAD_SHA256) =>
            /\ (\A i \in 1..Len(Seen(p)) : Seen(p)[i] = Seen(p)[1]) =>
                  result[p].entropy = Float(0)
            /\ FloatGt(ShannonBits(Seen(p)), Float(ENTROPY_THRESHOLD)) =>
                  /\ result[p].entropy = ShannonBits(Seen(p))
                  /\ result[p].infected
                  /\ ReasonStarts(result[p], "High file entropy: ")

(***************************************************************************)
(* C8: at every point of a call the two digest states and the histogram    *)
(* are those of the concatenation of all chunks read so far, the chunk     *)
(* that ended the call included; the hashes of a call that read its file   *)
(* to the end are the single-shot digests of that concatenation, which is  *)
(* the file's content when nobody truncated it.                            *)
(***************************************************************************)
C8_DigestsOfTheConcatenation ==
    \A p \in Procs :
        /\ locals[p].md5_hash = Md5Update(Md5Init, Seen(p))
        /\ locals[p].sha256_hash = Sha256Update(Sha256Init, Seen(p))
        /\ locals[p].byte_counts = Observe(EmptyBag, Seen(p))
        /\ (Returned(p) /\ obs[p].eof) =>
              /\ result[p].hashes = [md5 |-> Some(Md5Of(Seen(p))),
                                     sha256 |-> Some(Sha256Of(Seen(p)))]
              /\ fs[file_path[p]].data # <<>> => Seen(p) = fs[file_path[p]].data

\* a file of at least three chunks was hashed to its end
C8_Witness ==
    \E p \in Procs :
        /\ Returned(p)
        /\ obs[p].eof
        /\ Len(obs[p].chunks) >= 3
        /\ Len(obs[p].chunks[3]) < ChunkSize
        /\ result[p].hashes.md5 = Some(Md5Of(fs[file_path[p]].data))

(***************************************************************************)
(* C9: with several calls interleaved, the locals of every call in its     *)
(* loop and the result of every call that returned are those of the same   *)
(* call run alone on what it read, and the three module-level tables keep  *)
(* their initial values.                                                   *)
(***************************************************************************)
RECURSIVE ReplayChunks(_, _, _)
\* the loop run alone over the chunks: locals, result, and whether it returned
ReplayChunks(l, r, chunks) ==
    IF chunks = <<>> THEN [locals |-> l, result |-> r, returned |-> FALSE]
    ELSE LET after == ProcessChunk(l, r, Head(chunks), EXECUTABLE_HEADERS)
         IN  IF after.returned THEN after
             ELSE ReplayChunks(after.locals, after.result, Tail(chunks))

\* the result of a call on path run alone, given what it read
ScanAlone(path, o) ==
    IF o.isfile = Some(FALSE)
    THEN [NewResult(path) EXCEPT !.reason = Some("File does not exist")]
    ELSE IF o.size = Some(0)
    THEN [NewResult(path) EXCEPT !.reason = Some("File is empty")]
    ELSE LET run == ReplayChunks(NewLocals,
                                 [NewResult(path) EXCEPT !.size = o.size[1]],
                                 o.chunks)
         IN  IF run.returned THEN run.result
             ELSE IF o.error # None THEN ExceptHandler(run.result, o.error[1])
             ELSE PostStream(run.locals, run.result,
                             KnownBadMd5Table, KnownBadSha256Table)

C9_ConcurrentScansIndependent ==
    /\ KNOWN_BAD_MD5 = KnownBadMd5Table
    /\ KNOWN_BAD_SHA256 = KnownBadSha256Table
    /\ executable_headers = EXECUTABLE_HEADERS
    /\ \A p \in Procs :
          /\ pc[p] = "read" =>
                locals[p] = ReplayChunks(NewLocals, result[p], obs[p].chunks).locals
          /\ Returned(p) => result[p] = ScanAlone(file_path[p], obs[p])

\* two calls on different files are both in their loops, one with the
\* suspicious-content flag set after two chunks, the other in PDF mode
C9_Witness ==
    \E p, q \in Procs :
        /\ p # q
        /\ file_path[p] # file_path[q]
        /\ pc[p] = "read" /\ pc[q] = "read"
        /\ Len(obs[p].chunks) = 2 /\ Len(obs[q].chunks) = 1
        /\ locals[p].suspicious_content /\ ~locals[q].suspicious_content
        /\ locals[q].pdf_checked /\ ~locals[p].pdf_checked

(***************************************************************************)
(* C10: while a call is in its loop, and when it has read its file to the  *)
(* end, each heuristic flag is set exactly when some chunk read so far     *)
(* held the pattern; a chunk ends the call early only through the          *)
(* signature or embedded-script rule; and after the end of the file, when  *)
(* no blacklist or high-entropy rule fires, the verdict is                 *)
(* suspicious-content if that flag is set (the shellcode flag set or       *)
(* not), shellcode only if its flag is set and the other is not, and       *)
(* clean only if neither is set.                                           *)
(***************************************************************************)
SuspiciousReason ==
    "Suspicious content strings (potential ransomware or command injection)"
ShellcodeReason == "Potential shellcode pattern (NOP sled detected)"
CleanReason == "Scan completed: No threats detected"

C10_FlagsPersistAndOrder ==
    \A p \in Procs :
        LET cs == obs[p].chunks
            l == locals[p]
            r == result[p]
            streamed == Returned(p) /\ obs[p].eof
        IN  /\ (pc[p] = "read" \/ streamed) =>
                /\ l.suspicious_content
                      <=> (\E i \in 1..Len(cs) : HasSuspiciousString(cs[i]))
                /\ l.shellcode_detected
                      <=> (\E i \in 1..Len(cs) : HasNopSled(cs[i]))
            /\ (Returned(p) /\ ~obs[p].eof /\ obs[p].error = None /\ cs # <<>>) =>
                  \E prefix \in ShortCircuitPrefixes : ReasonStarts(r, prefix)
            /\ (/\ streamed
                /\ Md5Of(Seen(p)) \notin DOMAIN KNOWN_BAD_MD5
                /\ Sha256Of(Seen(p)) \notin DOMAIN KNOWN_BAD_SHA256
                /\ ~ReasonStarts(r, "High file entropy: ")) =>
                  /\ l.suspicious_content =>
                        (r.infected /\ r.reason = Some(SuspiciousReason))
                  /\ (l.shellcode_detected /\ ~l.suspicious_content) =>
                        (r.infected /\ r.reason = Some(ShellcodeReason))
                  /\ (~l.shellcode_detected /\ ~l.suspicious_content) =>
                        (~r.infected /\ r.reason = Some(CleanReason))
            /\ r.reason = Some(ShellcodeReason) =>
                  (l.shellcode_detected /\ ~l.suspicious_content)
            /\ r.reason = Some(CleanReason) =>
                  (~l.shellcode_detected /\ ~l.suspicious_content)

\* both flags were set by the first chunk, a later chunk held neither pattern,
\* and the verdict is suspicious-content
C10_Witness ==
    \E p \in Procs :
        /\ Returned(p)
        /\ obs[p].eof
        /\ Len(obs[p].chunks) >= 2
        /\ HasSuspiciousString(obs[p].chunks[1]) /\ HasNopSled(obs[p].chunks[1])
        /\ ~HasSuspiciousString(obs[p].chunks[2]) /\ ~HasNopSled(obs[p].chunks[2])
        /\ locals[p].shellcode_detected
        /\ result[p].reason = Some(SuspiciousReason)

(***************************************************************************)
(* C11: only the first chunk is tested for signatures, so an executable    *)
(* header is reported only by a call that read a single chunk starting     *)
(* with a non-PDF signature; document mode is on exactly when the first    *)
(* chunk starts with "%PDF-", and that chunk alone does not end the call;  *)
(* in document mode a chunk holding "/JavaScript" is the last one read and *)
(* the call returns "Embedded JavaScript in PDF (potential exploit)" with  *)
(* both hashes None and entropy 0.0, whatever the digest of the file and   *)
(* the flags; without document mode that verdict is never returned.        *)
(***************************************************************************)
EmbeddedScriptReason == "Embedded JavaScript in PDF (potential exploit)"

C11_DocumentMode ==
    \A p \in Procs :
        LET chunks == obs[p].chunks
            n == Len(chunks)
            pdf == n > 0 /\ StartsWith(chunks[1], SigPDF)
        IN  /\ ReasonStarts(result[p], "Suspicious executable header: ") =>
                /\ n = 1
                /\ \E sig \in NonPdfSigs : StartsWith(chunks[1], sig)
            /\ n > 0 => locals[p].pdf_checked = pdf
            /\ (n = 1 /\ pdf /\ ~Contains(chunks[1], JsMarker) /\ Returned(p)) =>
                    (obs[p].eof \/ obs[p].error # None)
            /\ pdf =>
                  \A i \in 1..n :
                      Contains(chunks[i], JsMarker) =>
                          /\ i = n
                          /\ Returned(p)
                          /\ ~obs[p].eof
                          /\ obs[p].error = None
                          /\ result[p] =
                               [NewResult(file_path[p]) EXCEPT
                                   !.infected = TRUE,
                                   !.reason = Some(EmbeddedScriptReason),
                                   !.size = obs[p].size[1]]
            /\ ReasonStarts(result[p], EmbeddedScriptReason) =>
                  /\ pdf
                  /\ Contains(chunks[n], JsMarker)

\* a blacklisted PDF whose first chunk set both flags and whose second chunk
\* holds the marker has returned the embedded-script verdict
C11_Witness ==
    \E p \in Procs :
        /\ Returned(p)
        /\ Len(obs[p].chunks) = 2
        /\ StartsWith(obs[p].chunks[1], SigPDF)
        /\ locals[p].suspicious_content
        /\ locals[p].shellcode_detected
        /\ Contains(obs[p].chunks[2], JsMarker)
        /\ Md5Of(fs[file_path[p]].data) \in DOMAIN KNOWN_BAD_MD5
        /\ result[p].reason = Some(EmbeddedScriptReason)
        /\ result[p].hashes.md5 = None

(***************************************************************************)
(* C12: each detector looks at one chunk at a time.  The suspicious-       *)
(* content flag is set exactly when some chunk the heuristics handled      *)
(* holds one of the suspicious strings as a whole, the shellcode flag      *)
(* exactly when some such chunk holds the whole run of 20 0x90 bytes, and  *)
(* the embedded-script verdict is returned exactly when, in document mode, *)
(* some chunk holds the whole "/JavaScript" marker; an occurrence that     *)
(* lies across a chunk boundary, whole in neither chunk, triggers nothing. *)
(***************************************************************************)
\* needle occurs in text as a whole
OccursIn(needle, text) ==
    \E i \in 0..(Len(text) - Len(needle)) :
        SubSeq(text, i + 1, i + Len(needle)) = needle

\* the chunks of call p that reached the heuristics of lines 108-115
HandledByHeuristics(p) ==
    {i \in 1..Len(obs[p].chunks) :
        \/ i < Len(obs[p].chunks)
        \/ \A prefix \in ShortCircuitPrefixes : ~ReasonStarts(result[p], prefix)}

C12_PerChunkDetection ==
    \A p \in Procs :
        LET chunks == obs[p].chunks
            handled == HandledByHeuristics(p)
        IN  /\ locals[p].suspicious_content <=>
                  \E i \in handled :
                      \E k \in 1..Len(suspicious_strings) :
                          OccursIn(suspicious_strings[k], Lower(chunks[i]))
            /\ locals[p].shellcode_detected <=>
                  \E i \in handled : OccursIn(NopSled, chunks[i])
            /\ ReasonStarts(result[p], EmbeddedScriptReason) <=>
                  /\ chunks # <<>>
                  /\ StartsWith(chunks[1], SigPDF)
                  /\ \E i \in 1..Len(chunks) : OccursIn(JsMarker, chunks[i])
            /\ (Returned(p) /\ obs[p].eof) =>
                  /\ result[p].reason = Some(ShellcodeReason) =>
                        \E i \in 1..Len(chunks) : OccursIn(NopSled, chunks[i])
                  /\ result[p].reason = Some(SuspiciousReason) =>
                        \E i \in 1..Len(chunks) :
                            \E k \in 1..Len(suspicious_strings) :
                                OccursIn(suspicious_strings[k], Lower(chunks[i]))

\* a file read to its end holds the run of 20 0x90 bytes across the boundary
\* of its two chunks and gets the clean verdict
C12_Witness ==
    \E p \in Procs :
        /\ Returned(p)
        /\ obs[p].eof
        /\ Len(obs[p].chunks) = 2
        /\ OccursIn(NopSled, Seen(p))
        /\ ~OccursIn(NopSled, obs[p].chunks[1])
        /\ ~OccursIn(NopSled, obs[p].chunks[2])
        /\ ~locals[p].shellcode_detected
        /\ result[p].reason = Some(CleanReason)

(***************************************************************************)
(* C13: whenever a call reaches the entropy step after the loop (it read   *)
(* its file to the end and neither digest is blacklisted), the histogram   *)
(* holds at least one byte, so the division by its total is not a division *)
(* by zero and the entropy is a number; also when another process          *)
(* truncates the file between the size test and the first read.            *)
(***************************************************************************)
ReachedEntropyStep(p) ==
    /\ Returned(p)
    /\ obs[p].eof
    /\ ~ReasonStarts(result[p], "Known malware (MD5): ")
    /\ ~ReasonStarts(result[p], "Known malware (SHA256): ")

C13_HistogramNeverEmpty ==
    \A p \in Procs :
        ReachedEntropyStep(p) =>
            /\ BagCardinality(locals[p].byte_counts) > 0
            /\ result[p].entropy # NaN

====
